---------------------------- MODULE Spec2Model ----------------------------
(***************************************************************************)
(* QuickSched: the bookkeeping methods of the TA, Lab, Availability and    *)
(* AllowTAEdit records (project/teachingassistant/models.py and            *)
(* project/laborganizer/models.py), as state machines over the persisted   *)
(* fields.  Each subsystem has its own specification; the variables of the *)
(* other subsystems keep their initial values there.                       *)
(***************************************************************************)
EXTENDS Integers, Sequences, FiniteSets, TLC

VARIABLES
    assigned,            \* TA.assigned_labs: [TAs -> SUBSET Labs]
    pc,                  \* position of each concurrent assign_to_lab request
    req,                 \* arguments of each concurrent assign_to_lab request
    scores,              \* TA.scores of one TA: its ScorePair rows, in pk order
    assigned_semesters,  \* TA.assigned_semesters of one TA: a set of Semester pks
    class_time_rows,     \* the ClassTime table: a set of rows
    class_times,         \* Availability.class_times of each Availability: row ids
    next_id,             \* the next primary key of the ClassTime table
    days,                \* Lab.days of one Lab
    experience,          \* TA.experience of one TA
    allowed,             \* AllowTAEdit.allowed
    saved_date,          \* AllowTAEdit.date
    saved_time,          \* AllowTAEdit.time
    now,                 \* the wall clock: what datetime.now() returns
    call                 \* the last completed call: its arguments and outcome

vars == <<assigned, pc, req, scores, assigned_semesters,
          class_time_rows, class_times, next_id, days, experience,
          allowed, saved_date, saved_time, now, call>>

(***************************************************************************)
(* Bounds and universes                                                    *)
(***************************************************************************)
NumTAs == 3

TAs == 1..NumTAs

Labs == {"lab1", "lab2"}

Procs == {"req1", "req2"}

\* The TAs that have an Availability record.
AvailabilityTAs == {1, 2}

timeVars == <<class_time_rows, class_times, next_id>>

gateVars == <<allowed, saved_date, saved_time, now>>

\* Everything but the lab assignments and the last call.
otherVars == <<scores, assigned_semesters, timeVars, days, experience, gateVars>>

NoCall == [op |-> "none"]

NoReq == [ta |-> 0, lab |-> "", all_tas |-> {}]

(***************************************************************************)
(* TA.assign_to_lab                                                        *)
(***************************************************************************)
\* The TAs that hold lab l under the assignment asg.
HoldersIn(asg, l) == {t \in TAs : l \in asg[t]}

\* lab.unassign_ta(all_tas): the lab is taken from whichever TA of all_tas
\* holds it.
unassign_ta(asg, lab, all_tas) ==
    [t \in TAs |-> IF t \in all_tas THEN asg[t] \ {lab} ELSE asg[t]]

assigned_labs_add_Exclusive(asg, self, lab) ==
    [t \in TAs |-> IF t = self THEN asg[t] \cup {lab} ELSE asg[t] \ {lab}]

\* self.assigned_labs.add(lab); self.save()
assigned_labs_add(asg, self, lab) ==
    [asg EXCEPT ![self] = @ \cup {lab}]

assign_to_lab_NoUnassign(asg, self, lab, all_tas) ==
    assigned_labs_add(asg, self, lab)

assign_to_lab(asg, self, lab, all_tas) ==
    assigned_labs_add(unassign_ta(asg, lab, all_tas), self, lab)

\* One sequentially executed call of assign_to_lab.
AssignToLab ==
    \E t \in TAs, l \in Labs, all \in SUBSET TAs :
        /\ assigned' = assign_to_lab(assigned, t, l, all)
        /\ call' = [op |-> "assign_to_lab", ta |-> t, lab |-> l,
                    all_tas |-> all, held |-> HoldersIn(assigned, l)]
        /\ UNCHANGED <<pc, req, otherVars>>

InitAssign ==
    /\ assigned = [t \in TAs |-> {}]
    /\ pc = [p \in Procs |-> "idle"]
    /\ req = [p \in Procs |-> NoReq]

\* No ClassTime row yet.
InitNoTimes ==
    /\ class_time_rows = {}
    /\ class_times = [t \in AvailabilityTAs |-> {}]
    /\ next_id = 1

\* An AllowTAEdit record created at midnight of 1 January 2022 and read then.
InitGateIdle ==
    /\ allowed = FALSE
    /\ saved_date = [year |-> 2022, month |-> 1, day |-> 1]
    /\ saved_time = [hour |-> 0, minute |-> 0]
    /\ now = [date |-> saved_date, time |-> saved_time]

\* New records: empty relations and text fields, no call made.
InitFields ==
    /\ InitAssign
    /\ scores = <<>>
    /\ assigned_semesters = {}
    /\ days = <<>>
    /\ experience = <<>>
    /\ call = NoCall

InitCommon ==
    /\ InitFields
    /\ InitNoTimes
    /\ InitGateIdle

NextAssign == AssignToLab

SpecAssign == InitCommon /\ [][NextAssign]_vars

AtMostOneTAPerLab == \A l \in Labs : Cardinality(HoldersIn(assigned, l)) <= 1

\* C1 (as stated): after assign_to_lab(t, l, all_tas), for every list all_tas,
\* exactly one TA of all_tas holds l and it is t; so every lab has at most one
\* TA in every reachable state.
C1_AssignExactlyOneInAnyList ==
    /\ call.op = "assign_to_lab" =>
          {t \in call.all_tas : call.lab \in assigned[t]} = {call.ta}
    /\ AtMostOneTAPerLab

C1_Step ==
    LET c == call' IN
    (c.ta \in c.all_tas /\ HoldersIn(assigned, c.lab) \subseteq c.all_tas) =>
        /\ HoldersIn(assigned', c.lab) = {c.ta}
        /\ {t \in c.all_tas : c.lab \in assigned'[t]} = {c.ta}
        /\ AtMostOneTAPerLab => AtMostOneTAPerLab'

\* C1 (amended): when all_tas contains t and every TA that holds l before the
\* call, assign_to_lab(t, l, all_tas) leaves t as the one TA holding l, and a
\* state with at most one TA per lab stays one.
C1_AssignExactlyOne == [][C1_Step]_vars

\* A call with the full list that displaced another TA.
C1_Witness ==
    /\ call.op = "assign_to_lab"
    /\ call.all_tas = TAs
    /\ call.held # {}
    /\ call.ta \notin call.held
    /\ HoldersIn(assigned, call.lab) = {call.ta}

(***************************************************************************)
(* Two assign_to_lab requests running against the same tables.  Nothing in *)
(* assign_to_lab holds a lock or a transaction, so the displacement        *)
(* (line 176) and the add-and-save (lines 179-182) of one request are two  *)
(* steps between which the other request may run.                          *)
(***************************************************************************)
\* lab.unassign_ta(all_tas) of request p, called with the list of all TAs.
Displace(p) ==
    \E t \in TAs, l \in Labs :
        /\ pc[p] = "idle"
        /\ assigned' = unassign_ta(assigned, l, TAs)
        /\ req' = [req EXCEPT ![p] = [ta |-> t, lab |-> l, all_tas |-> TAs]]
        /\ pc' = [pc EXCEPT ![p] = "displaced"]
        /\ UNCHANGED <<otherVars, call>>

\* self.assigned_labs.add(lab); self.save() of request p.
AddAndSave(p) ==
    /\ pc[p] = "displaced"
    /\ assigned' = assigned_labs_add(assigned, req[p].ta, req[p].lab)
    /\ req' = [req EXCEPT ![p] = NoReq]
    /\ pc' = [pc EXCEPT ![p] = "idle"]
    /\ UNCHANGED <<otherVars, call>>

InitRace == InitCommon

NextRace == \E p \in Procs : Displace(p) \/ AddAndSave(p)

SpecRace == InitRace /\ [][NextRace]_vars

C9_Step ==
    \A p \in Procs :
        (pc[p] = "displaced" /\ pc'[p] = "idle") =>
            /\ req[p].lab \in assigned'[req[p].ta]
            /\ \A t \in TAs : req[p].lab \in assigned[t] => req[p].lab \in assigned'[t]

\* C9: the add-and-save step of a request displaces nobody: a TA that was given
\* the lab by the other request after this request's displacement step still
\* holds it afterwards, so two interleaved requests for one lab leave it with
\* both TAs.
C9_RaceKeepsBothHolders == [][C9_Step]_vars

\* Both requests have completed and two different TAs hold the same lab.
C9_Witness ==
    /\ \A p \in Procs : pc[p] = "idle"
    /\ \E l \in Labs : Cardinality(HoldersIn(assigned, l)) = 2

(***************************************************************************)
(* Strings are tuples of one-character strings; str() and int() are the    *)
(* conversions Python and the ORM apply between integers and text columns. *)
(***************************************************************************)
Digits == <<"0", "1", "2", "3", "4", "5", "6", "7", "8", "9">>

DigitValue(c) == CHOOSE d \in 0..9 : Digits[d + 1] = c

IsDigitString(s) == Len(s) > 0 /\ \A i \in 1..Len(s) : \E d \in 0..9 : Digits[d + 1] = s[i]

RECURSIVE str(_)
\* str(n) of a non-negative integer: its decimal digits, no leading zero.
str(n) == IF n < 10 THEN <<Digits[n + 1]>>
          ELSE Append(str(n \div 10), Digits[(n % 10) + 1])

RECURSIVE int(_)
\* int(s) of a string of decimal digits (leading zeros are accepted).
int(s) == IF Len(s) = 0 THEN 0
          ELSE 10 * int(SubSeq(s, 1, Len(s) - 1)) + DigitValue(s[Len(s)])

(***************************************************************************)
(* TA.score_exists, TA.assign_score                                        *)
(***************************************************************************)
MaxScorePairs == 3

\* The labs scores are given for: catalog_id and semester (a Semester pk).
ScoreLabs == { [catalog_id |-> "126", semester |-> "one"],
               [catalog_id |-> "126", semester |-> "two"],
               [catalog_id |-> "305", semester |-> "one"] }

\* schedule_key arguments: Python integers and Python strings.
ScheduleKeys == { [kind |-> "int", val |-> 1], [kind |-> "int", val |-> 2],
                  [kind |-> "str", val |-> <<"1">>] }

ScoreValues == {1, 2}

\* What the CharField schedule_key holds once the row is read back.
stored_key(key) == IF key.kind = "int" THEN str(key.val) ELSE key.val

\* Python's int(score.schedule_key) == schedule_key: an int never equals a str.
key_matches(stored, key) == key.kind = "int" /\ int(stored) = key.val

\* score_exists: the index of the first matching ScorePair, 0 for None.
score_exists(rows, lab, schedule_key) ==
    LET hits == {i \in 1..Len(rows) :
                    /\ rows[i].score_catalog_id = lab.catalog_id
                    /\ rows[i].semester = lab.semester
                    /\ key_matches(rows[i].schedule_key, schedule_key)}
    IN IF hits = {} THEN 0 ELSE CHOOSE i \in hits : \A j \in hits : i <= j

\* assign_score: create and attach a ScorePair, or overwrite the found one.
assign_score(rows, score, lab, schedule_key) ==
    LET i == score_exists(rows, lab, schedule_key) IN
    IF i = 0
    THEN Append(rows, [score_catalog_id |-> lab.catalog_id, score |-> score,
                       semester |-> lab.semester,
                       schedule_key |-> stored_key(schedule_key)])
    ELSE [rows EXCEPT ![i].score = score]

AssignScore ==
    \E s \in ScoreValues, lab \in ScoreLabs, key \in ScheduleKeys :
        /\ Len(assign_score(scores, s, lab, key)) <= MaxScorePairs
        /\ scores' = assign_score(scores, s, lab, key)
        /\ call' = [op |-> "assign_score", score |-> s, lab |-> lab, key |-> key,
                    prev |-> IF call.op = "assign_score"
                             THEN [op |-> "assign_score", score |-> call.score,
                                   lab |-> call.lab, key |-> call.key]
                             ELSE NoCall]
        /\ UNCHANGED <<assigned, pc, req, assigned_semesters, timeVars,
                       days, experience, gateVars>>

InitScore == InitCommon

NextScore == AssignScore

SpecScore == InitScore /\ [][NextScore]_vars

\* The ScorePair rows of the TA for (lab.catalog_id, lab.semester, key).
PairsFor(lab, key) ==
    {i \in 1..Len(scores) :
        /\ scores[i].score_catalog_id = lab.catalog_id
        /\ scores[i].semester = lab.semester
        /\ scores[i].schedule_key = stored_key(key)}

\* C2: assign_score(s1, lab, key) followed by assign_score(s2, lab, key) with
\* s1 # s2 leaves exactly one ScorePair for (lab.catalog_id, lab.semester,
\* key), holding s2; and a TA never holds two ScorePairs with the same
\* (catalog_id, semester, schedule_key).
C2_OneScorePairPerKey ==
    /\ (/\ call.op = "assign_score"
        /\ call.prev.op = "assign_score"
        /\ call.prev.lab = call.lab
        /\ call.prev.key = call.key
        /\ call.prev.score # call.score)
       => /\ Cardinality(PairsFor(call.lab, call.key)) = 1
          /\ \A i \in PairsFor(call.lab, call.key) : scores[i].score = call.score
    /\ \A i, j \in 1..Len(scores) :
          (/\ scores[i].score_catalog_id = scores[j].score_catalog_id
           /\ scores[i].semester = scores[j].semester
           /\ scores[i].schedule_key = scores[j].schedule_key) => i = j

(***************************************************************************)
(* Semester.__str__, TA.is_assigned_to_semester, TA.update_semesters       *)
(***************************************************************************)
MaxLabels == 2

\* The Semester table: pk -> row.
SemesterRows == [ one   |-> [semester_time |-> <<"S", "P", "R">>, year |-> 2022],
                  two   |-> [semester_time |-> <<"F", "A", "L">>, year |-> 2022],
                  three |-> [semester_time |-> <<"S", "U", "M">>, year |-> 2023] ]

Semesters == DOMAIN SemesterRows

\* Labels a caller may pass: the renderings of the three rows, Spring 2022
\* with its year written 02022, Winter 2022, which has no row, and a label
\* whose year part is not a number.
SemesterLabels == { <<"S", "P", "R", "2", "0", "2", "2">>,
                    <<"F", "A", "L", "2", "0", "2", "2">>,
                    <<"S", "U", "M", "2", "0", "2", "3">>,
                    <<"S", "P", "R", "0", "2", "0", "2", "2">>,
                    <<"W", "N", "T", "2", "0", "2", "2">>,
                    <<"S", "P", "R", "2", "0", "2", "X">> }

LabelLists == UNION {[1..n -> SemesterLabels] : n \in 0..MaxLabels}

\* Semester.__str__: semester_time + str(year)
Semester_str(pk) == SemesterRows[pk].semester_time \o str(SemesterRows[pk].year)

\* The rows Semester.objects.get(year=semester[3:], semester_time=semester[:3])
\* matches; the ORM converts the year text with int().
Semester_lookup(label) ==
    LET time == SubSeq(label, 1, 3)
        year == SubSeq(label, 4, Len(label))
    IN {pk \in Semesters : /\ IsDigitString(year)
                           /\ SemesterRows[pk].year = int(year)
                           /\ SemesterRows[pk].semester_time = time}

is_assigned_to_semester(cur, pk) == pk \in cur

\* year = semester[3:]
label_year(label) == SubSeq(label, 4, Len(label))

RECURSIVE add_semesters(_, _, _)
\* The first loop of update_semesters from index i on: [set, status].  The
\* lookup raises ValueError for a year that int() rejects and DoesNotExist
\* when no row matches; what earlier iterations added stays added.
add_semesters(cur, semester_list, i) ==
    IF i > Len(semester_list) THEN [set |-> cur, status |-> "ok"]
    ELSE LET found == Semester_lookup(semester_list[i]) IN
         IF ~IsDigitString(label_year(semester_list[i]))
         THEN [set |-> cur, status |-> "ValueError"]
         ELSE IF found = {} THEN [set |-> cur, status |-> "DoesNotExist"]
         ELSE LET pk == CHOOSE x \in found : TRUE IN
              add_semesters(IF is_assigned_to_semester(cur, pk) THEN cur
                            ELSE cur \cup {pk},
                            semester_list, i + 1)

\* The second loop: unassign every semester whose str() is not in the list.
remove_semesters(cur, semester_list) ==
    {pk \in cur : \E i \in 1..Len(semester_list) : semester_list[i] = Semester_str(pk)}

update_semesters_NoRemove(cur, semester_list) ==
    add_semesters(cur, semester_list, 1)

\* The failure is swallowed and the removal loop runs all the same.
update_semesters_IgnoreFailure(cur, semester_list) ==
    [set |-> remove_semesters(add_semesters(cur, semester_list, 1).set,
                              semester_list),
     status |-> "ok"]

update_semesters(cur, semester_list) ==
    LET added == add_semesters(cur, semester_list, 1) IN
    IF added.status = "ok"
    THEN [set |-> remove_semesters(added.set, semester_list), status |-> "ok"]
    ELSE added

UpdateSemesters ==
    \E semester_list \in LabelLists :
        LET r == update_semesters(assigned_semesters, semester_list) IN
        /\ assigned_semesters' = r.set
        /\ call' = [op |-> "update_semesters", semester_list |-> semester_list,
                    before |-> assigned_semesters, status |-> r.status]
        /\ UNCHANGED <<assigned, pc, req, scores, timeVars,
                       days, experience, gateVars>>

InitSemesters == InitCommon

NextSemesters == UpdateSemesters

SpecSemesters == InitSemesters /\ [][NextSemesters]_vars

\* The Semesters the labels of the list resolve to.
ResolvedSet(semester_list) ==
    UNION {Semester_lookup(semester_list[i]) : i \in 1..Len(semester_list)}

AllResolve(semester_list) ==
    \A i \in 1..Len(semester_list) : Semester_lookup(semester_list[i]) # {}

\* Every label is the rendering of a Semester row.
AllRendered(semester_list) ==
    \A i \in 1..Len(semester_list) :
        \E pk \in Semesters : semester_list[i] = Semester_str(pk)

\* C3 (as stated): for every list of labels that each resolve to a Semester,
\* update_semesters leaves exactly the resolved Semesters assigned.
C3_ExactlyResolvedSet ==
    (call.op = "update_semesters" /\ AllResolve(call.semester_list)) =>
        assigned_semesters = ResolvedSet(call.semester_list)

\* C3 (amended): for every list of labels that are each the string rendering
\* of a Semester (session code, then the year as str() writes it),
\* update_semesters leaves exactly the resolved Semesters assigned.
C3_ExactlyRenderedSet ==
    (call.op = "update_semesters" /\ AllRendered(call.semester_list)) =>
        /\ call.status = "ok"
        /\ assigned_semesters = ResolvedSet(call.semester_list)

\* ["SPR2022", "FAL2022"] then ["FAL2022"]: Spring 2022 was removed.
C3_Witness ==
    /\ call.op = "update_semesters"
    /\ call.semester_list = << <<"F", "A", "L", "2", "0", "2", "2">> >>
    /\ call.before = {"one", "two"}
    /\ assigned_semesters = {"two"}

\* The position of the first label of the list that resolves to no Semester.
FirstUnresolved(semester_list) ==
    CHOOSE i \in 1..Len(semester_list) :
        /\ Semester_lookup(semester_list[i]) = {}
        /\ \A j \in 1..(i - 1) : Semester_lookup(semester_list[j]) # {}

\* C11 (as stated): when some label of the list resolves to no Semester,
\* update_semesters ends in a not-found failure and the TA's
\* assigned_semesters set is exactly what it was before the call.
C11_FailureLeavesSetUnchanged ==
    (call.op = "update_semesters" /\ ~AllResolve(call.semester_list)) =>
        /\ call.status = "DoesNotExist"
        /\ assigned_semesters = call.before

\* C11 (amended): when the first label that resolves to no Semester has a
\* year part written in digits, update_semesters ends in a not-found failure
\* and the TA's assigned_semesters set is what it was before the call
\* together with the Semesters the labels before that one resolve to.
C11_FailureKeepsEarlierAdds ==
    (/\ call.op = "update_semesters"
     /\ ~AllResolve(call.semester_list)
     /\ IsDigitString(label_year(
            call.semester_list[FirstUnresolved(call.semester_list)]))) =>
        /\ call.status = "DoesNotExist"
        /\ assigned_semesters =
              call.before \cup
              ResolvedSet(SubSeq(call.semester_list, 1,
                                 FirstUnresolved(call.semester_list) - 1))

\* ["FAL2022", "WNT2022"] on a TA assigned to Spring 2022: the call failed,
\* Fall 2022 stays added and Spring 2022 was not removed.
C11_Witness ==
    /\ call.op = "update_semesters"
    /\ call.semester_list = << <<"F", "A", "L", "2", "0", "2", "2">>,
                               <<"W", "N", "T", "2", "0", "2", "2">> >>
    /\ call.before = {"one"}
    /\ call.status = "DoesNotExist"
    /\ assigned_semesters = {"one", "two"}

(***************************************************************************)
(* ClassTime.join_days, Availability.delete_times, Availability.edit_time  *)
(***************************************************************************)
MaxTimes == 2

MaxId == 5

\* Entries of time_list: (start, end, day, ...).
TimeEntries == { <<8, 9>>, <<10, 12, <<"M">>, <<"W", "e">>>> }

SemesterNames == {"Spring 2022", "Fall 2022"}

TimeLists == UNION {[1..n -> TimeEntries] : n \in 0..MaxTimes}

SemesterNameLists == UNION {[1..n -> SemesterNames] : n \in 0..MaxTimes}

RECURSIVE join(_, _)
\* sep.join(parts) on strings.
join(sep, parts) ==
    IF Len(parts) = 0 THEN <<>>
    ELSE IF Len(parts) = 1 THEN parts[1]
    ELSE parts[1] \o sep \o join(sep, Tail(parts))

\* ClassTime.join_days: ','.join(days_list)
join_days(days_list) == join(<<",">>, days_list)

\* delete_times: empty the class_times relation of the Availability of ta and
\* delete the ClassTime rows of ta (which also leave every relation).
delete_times(db, ta) ==
    LET gone == {r.id : r \in {x \in db.rows : x.ta = ta}} IN
    [db EXCEPT !.rows = {r \in db.rows : r.ta # ta},
               !.class_times = [t \in AvailabilityTAs |->
                                   IF t = ta THEN {} ELSE db.class_times[t] \ gone]]

RECURSIVE create_times(_, _, _, _, _)
\* The loop of edit_time from entry i on; semester_index is the 0-based index
\* into semester_list.
create_times(db, ta, time_list, semester_list, semester_index) ==
    LET i == semester_index + 1 IN
    IF i > Len(time_list) THEN [db EXCEPT !.status = "ok"]
    ELSE IF semester_index >= Len(semester_list)
         THEN [db EXCEPT !.status = "IndexError"]
         ELSE LET new_time == time_list[i]
                  row == [id |-> db.next_id, ta |-> ta,
                          start_time |-> new_time[1], end_time |-> new_time[2],
                          days |-> join_days(SubSeq(new_time, 3, Len(new_time))),
                          semester_name |-> semester_list[semester_index + 1]]
              IN create_times([db EXCEPT !.rows = @ \cup {row},
                                         !.class_times[ta] = @ \cup {row.id},
                                         !.next_id = @ + 1],
                              ta, time_list, semester_list, semester_index + 1)

edit_time_NoDelete(db, ta, time_list, semester_list) ==
    create_times(db, ta, time_list, semester_list, 0)

RECURSIVE create_times_Index0(_, _, _, _, _)
create_times_Index0(db, ta, time_list, semester_list, i) ==
    IF i > Len(time_list) THEN [db EXCEPT !.status = "ok"]
    ELSE IF Len(semester_list) = 0
         THEN [db EXCEPT !.status = "IndexError"]
         ELSE LET new_time == time_list[i]
                  row == [id |-> db.next_id, ta |-> ta,
                          start_time |-> new_time[1], end_time |-> new_time[2],
                          days |-> join_days(SubSeq(new_time, 3, Len(new_time))),
                          semester_name |-> semester_list[1]]
              IN create_times_Index0([db EXCEPT !.rows = @ \cup {row},
                                                !.class_times[ta] = @ \cup {row.id},
                                                !.next_id = @ + 1],
                                     ta, time_list, semester_list, i + 1)

edit_time_Index0(db, ta, time_list, semester_list) ==
    create_times_Index0(delete_times(db, ta), ta, time_list, semester_list, 1)

\* edit_time: delete the class times of ta, then create one per entry.
edit_time(db, ta, time_list, semester_list) ==
    create_times(delete_times(db, ta), ta, time_list, semester_list, 0)

EmptyDb == [rows |-> {}, class_times |-> [t \in AvailabilityTAs |-> {}],
            next_id |-> 1, status |-> "running"]

\* The TA whose Availability is edited, and the other one.
EditingTA == 1

OtherTA == 2

EditTime ==
    \E ta \in {EditingTA}, time_list \in TimeLists,
       semester_list \in SemesterNameLists :
        \E r \in {edit_time([rows |-> class_time_rows, class_times |-> class_times,
                             next_id |-> next_id, status |-> "running"],
                            ta, time_list, semester_list)} :
           /\ r.next_id <= MaxId + 1
           /\ class_time_rows' = r.rows
           /\ class_times' = r.class_times
           /\ next_id' = r.next_id
           /\ call' = [op |-> "edit_time", ta |-> ta, time_list |-> time_list,
                       semester_list |-> semester_list,
                       before |-> {x.id : x \in class_time_rows},
                       status |-> r.status]
           /\ UNCHANGED <<assigned, pc, req, scores, assigned_semesters,
                          days, experience, gateVars>>

\* The table before the calls under study: the other TA has made one call of
\* edit_time, with no entry or with one.
InitTimes ==
    /\ InitFields
    /\ InitGateIdle
    /\ \E time_list \in {<<>>} \cup {<<e>> : e \in TimeEntries},
          semester_list \in {<<>>} \cup {<<n>> : n \in SemesterNames} :
          /\ Len(time_list) = Len(semester_list)
          /\ \E r \in {edit_time(EmptyDb, OtherTA, time_list, semester_list)} :
                /\ class_time_rows = r.rows
                /\ class_times = r.class_times
                /\ next_id = r.next_id

NextTimes == EditTime

SpecTimes == InitTimes /\ [][NextTimes]_vars

\* The ClassTime rows owned by ta.
OwnedBy(ta) == {r \in class_time_rows : r.ta = ta}

\* The row of ta with the i-th smallest id.
NthOwned(ta, i) ==
    CHOOSE r \in OwnedBy(ta) : Cardinality({x \in OwnedBy(ta) : x.id < r.id}) = i - 1

\* The first n rows of ta are new, attached, and carry entries 1..n.
CreatedFrom(ta, time_list, semester_list, before, n) ==
    /\ Cardinality(OwnedBy(ta)) = n
    /\ \A r \in OwnedBy(ta) : r.id \in class_times[ta] /\ r.id \notin before
    /\ \A i \in 1..n :
          LET r == NthOwned(ta, i) IN
          /\ r.start_time = time_list[i][1]
          /\ r.end_time = time_list[i][2]
          /\ r.days = join(<<",">>, SubSeq(time_list[i], 3, Len(time_list[i])))
          /\ r.semester_name = semester_list[i]

\* C4: edit_time with n time entries and n semester labels leaves exactly n
\* ClassTime rows of the TA, all in class_times, none from before the call,
\* the i-th built from time_list[i] and semester_list[i]; an empty time_list
\* leaves none.
C4_EditTimeReplaces ==
    (call.op = "edit_time" /\ Len(call.time_list) = Len(call.semester_list)) =>
        /\ call.status = "ok"
        /\ CreatedFrom(call.ta, call.time_list, call.semester_list, call.before,
                       Len(call.time_list))
        /\ Len(call.time_list) = 0 => OwnedBy(call.ta) = {}

\* Two entries replaced two earlier rows of the same TA.
C4_Witness ==
    /\ call.op = "edit_time"
    /\ call.status = "ok"
    /\ Len(call.time_list) = 2
    /\ Len(call.semester_list) = 2
    /\ call.time_list[1] # call.time_list[2]
    /\ call.semester_list[1] # call.semester_list[2]
    /\ Cardinality(OwnedBy(call.ta)) = 2
    /\ Cardinality(call.before \ {r.id : r \in OwnedBy(OtherTA)}) = 2
    /\ OwnedBy(OtherTA) # {}

\* C8 (as stated): edit_time with lists of different lengths ends in an
\* out-of-bounds failure, for a shorter and for a longer semester_list alike.
C8_MismatchAlwaysFails ==
    (call.op = "edit_time" /\ Len(call.time_list) # Len(call.semester_list)) =>
        call.status = "IndexError"

\* C8 (amended): with a semester_list shorter than time_list, edit_time ends
\* in an IndexError, after deleting the old rows and creating one row per
\* label; with a longer semester_list it completes normally and ignores the
\* extra labels.
C8_ShorterFailsLongerIgnored ==
    /\ (call.op = "edit_time" /\ Len(call.semester_list) < Len(call.time_list)) =>
          /\ call.status = "IndexError"
          /\ CreatedFrom(call.ta, call.time_list, call.semester_list, call.before,
                         Len(call.semester_list))
    /\ (call.op = "edit_time" /\ Len(call.semester_list) > Len(call.time_list)) =>
          /\ call.status = "ok"
          /\ CreatedFrom(call.ta, call.time_list, call.semester_list, call.before,
                         Len(call.time_list))

\* Two entries with one label: the first row was created, then the failure.
C8_Witness ==
    /\ call.op = "edit_time"
    /\ Len(call.time_list) = 2
    /\ Len(call.semester_list) = 1
    /\ call.status = "IndexError"
    /\ Cardinality(OwnedBy(call.ta)) = 1
    /\ call.before # {}

(***************************************************************************)
(* Python values that are compared across types carry their type.          *)
(***************************************************************************)
PyStr(s) == [type |-> "str", value |-> s]

PyList(l) == [type |-> "list", value |-> l]

RECURSIVE split(_, _)
\* s.split(sep) for a one-character separator: every occurrence splits, so
\* the result has one piece more than s has separators.
split(s, sep) ==
    IF \A i \in 1..Len(s) : s[i] # sep THEN <<s>>
    ELSE LET k == CHOOSE i \in 1..Len(s) :
                     s[i] = sep /\ \A j \in 1..(i - 1) : s[j] # sep
         IN <<SubSeq(s, 1, k - 1)>> \o split(SubSeq(s, k + 1, Len(s)), sep)

(***************************************************************************)
(* Lab.set_days, Lab.get_days                                              *)
(***************************************************************************)
MaxDays == 3

DayTokens == { <<"M">>, <<"T", "u">>, <<"W">>, <<"T", "h">>, <<"F">> }

\* Lists of distinct weekday tokens.
DayLists ==
    {l \in UNION {[1..n -> DayTokens] : n \in 0..MaxDays} :
        \A i, j \in 1..Len(l) : l[i] = l[j] => i = j}

\* set_days: self.days = ' '.join(days_list)
set_days(days_list) == join(<<" ">>, days_list)

get_days_Raw(d) == d

\* get_days: ', '.join(self.days.split(' ')), a string
get_days(d) == join(<<",", " ">>, split(d, " "))

SetDays ==
    \E days_list \in DayLists :
        /\ days' = set_days(days_list)
        /\ call' = [op |-> "set_days", days_list |-> days_list]
        /\ UNCHANGED <<assigned, pc, req, scores, assigned_semesters, timeVars,
                       experience, gateVars>>

GetDays ==
    /\ call.op \in {"set_days", "get_days"}
    /\ call' = [op |-> "get_days", days_list |-> call.days_list,
                ret |-> PyStr(get_days(days))]
    /\ UNCHANGED <<assigned, pc, req, scores, assigned_semesters, timeVars,
                   days, experience, gateVars>>

InitDays == InitCommon

NextDays == SetDays \/ GetDays

SpecDays == InitDays /\ [][NextDays]_vars

\* C5 (as stated): get_days() after set_days(D) yields the list D again.
C5_DaysRoundTrip ==
    call.op = "get_days" => call.ret = PyList(call.days_list)

\* The characters of the tokens of D, each token but the last followed by a
\* comma and a space.
RECURSIVE CommaSpaced(_)
CommaSpaced(D) ==
    IF Len(D) = 0 THEN <<>>
    ELSE IF Len(D) = 1 THEN D[1]
    ELSE D[1] \o <<",", " ">> \o CommaSpaced(Tail(D))

\* C5 (amended): get_days() after set_days(D) yields the tokens of D in
\* order as one string, separated by a comma and a space: a string, not D.
C5_DaysReadable ==
    call.op = "get_days" =>
        /\ call.ret = PyStr(CommaSpaced(call.days_list))
        /\ call.ret # PyList(call.days_list)

\* Three tokens, one of two characters, have been encoded and read back.
C5_Witness ==
    /\ call.op = "get_days"
    /\ Len(call.days_list) = 3
    /\ \E i \in 1..3 : Len(call.days_list[i]) = 2
    /\ Len(call.ret.value) > Len(days)

(***************************************************************************)
(* TA.get_experience                                                       *)
(***************************************************************************)
MaxLen == 3

\* Code points of the characters used.
CharCode(c) ==
    CASE c = " " -> 32
      [] c = "," -> 44
      [] c = "/" -> 47
      [] c = ":" -> 58
      [] c = "A" -> 65
      [] c = "C" -> 67
      [] c = "M" -> 77
      [] c = "S" -> 83
      [] c = "T" -> 84
      [] OTHER -> 48 + DigitValue(c)

ExperienceAlphabet == {"C", "S", "0", "9", ",", " ", "/", ":"}

ExampleExperience ==
    <<"C", "S", "1", "2", "6", ",", "M", "A", "T", "3", "0", "5">>

ExperienceStrings ==
    UNION {[1..n -> ExperienceAlphabet] : n \in 0..MaxLen} \cup {ExampleExperience}

RECURSIVE scan_course(_, _, _, _)
\* The inner loop of get_experience over the characters of course from i on.
scan_course(course, i, subject, catalog_id) ==
    IF i > Len(course) THEN <<subject, catalog_id>>
    ELSE LET character == course[i] IN
         IF CharCode(character) >= CharCode("0") /\ CharCode(character) <= CharCode("9")
         THEN scan_course(course, i + 1, subject, Append(catalog_id, character))
         ELSE IF character # " "
              THEN scan_course(course, i + 1, Append(subject, character), catalog_id)
              ELSE scan_course(course, i + 1, subject, catalog_id)

RECURSIVE scan_course_KeepSpaces(_, _, _, _)
scan_course_KeepSpaces(course, i, subject, catalog_id) ==
    IF i > Len(course) THEN <<subject, catalog_id>>
    ELSE LET character == course[i] IN
         IF CharCode(character) >= CharCode("0") /\ CharCode(character) <= CharCode("9")
         THEN scan_course_KeepSpaces(course, i + 1, subject, Append(catalog_id, character))
         ELSE scan_course_KeepSpaces(course, i + 1, Append(subject, character), catalog_id)

get_experience_KeepSpaces(e) ==
    LET courses == split(e, ",") IN
    [k \in 1..Len(courses) |-> scan_course_KeepSpaces(courses[k], 1, <<>>, <<>>)]

\* get_experience: one (subject, catalog_id) tuple per course of the string.
get_experience(e) ==
    LET courses == split(e, ",") IN
    [k \in 1..Len(courses) |-> scan_course(courses[k], 1, <<>>, <<>>)]

GetExperience ==
    /\ call' = [op |-> "get_experience", ret |-> get_experience(experience)]
    /\ UNCHANGED <<assigned, pc, req, scores, assigned_semesters, timeVars,
                   days, experience, gateVars>>

\* The experience text the TA was saved with.
InitExperience ==
    /\ InitAssign
    /\ scores = <<>>
    /\ assigned_semesters = {}
    /\ days = <<>>
    /\ experience \in ExperienceStrings
    /\ call = NoCall
    /\ InitNoTimes
    /\ InitGateIdle

NextExperience == GetExperience

SpecExperience == InitExperience /\ [][NextExperience]_vars

DigitChars == {"0", "1", "2", "3", "4", "5", "6", "7", "8", "9"}

IsDigitChar(c) == c \in DigitChars

IsSubjectChar(c) == c \notin DigitChars /\ c # " "

\* Positions of the commas of e, with 0 before and Len(e) + 1 after.
Cuts(e) == {0, Len(e) + 1} \cup {i \in 1..Len(e) : e[i] = ","}

\* The k-th smallest cut.
Cut(e, k) == CHOOSE c \in Cuts(e) : Cardinality({d \in Cuts(e) : d < c}) = k - 1

\* The k-th comma-separated token of e.
Token(e, k) == SubSeq(e, Cut(e, k) + 1, Cut(e, k + 1) - 1)

\* C6: get_experience returns one (subject, catalog_id) pair per
\* comma-separated token, in token order: catalog_id the token's digits in
\* order, subject its characters that are neither digits nor spaces, however
\* they interleave; "CS126,MAT305" gives [("CS","126"), ("MAT","305")].
C6_ExperiencePairs ==
    call.op = "get_experience" =>
        /\ Len(call.ret) = Cardinality(Cuts(experience)) - 1
        /\ \A k \in 1..Len(call.ret) :
              /\ call.ret[k][1] = SelectSeq(Token(experience, k), IsSubjectChar)
              /\ call.ret[k][2] = SelectSeq(Token(experience, k), IsDigitChar)
        /\ experience = ExampleExperience =>
              call.ret = << << <<"C", "S">>, <<"1", "2", "6">> >>,
                            << <<"M", "A", "T">>, <<"3", "0", "5">> >> >>

\* A decoded string with a digit before a letter, a space and two tokens.
C6_Witness ==
    /\ call.op = "get_experience"
    /\ Len(call.ret) = 2
    /\ \E i, j, k \in 1..Len(experience) :
          /\ i < j
          /\ IsDigitChar(experience[i])
          /\ IsSubjectChar(experience[j])
          /\ experience[k] = " "

(***************************************************************************)
(* AllowTAEdit.is_allowed                                                  *)
(***************************************************************************)
GateDates == { [year |-> 2022, month |-> 12, day |-> 31],
               [year |-> 2023, month |-> 1, day |-> 1],
               [year |-> 2023, month |-> 1, day |-> 2] }

GateTimes == { [hour |-> 8, minute |-> 0], [hour |-> 9, minute |-> 30],
               [hour |-> 23, minute |-> 59] }

Moments == [date : GateDates, time : GateTimes]

\* A number below 100 as two digits, zero-padded.
pad2(n) == IF n < 10 THEN <<"0">> \o str(n) ELSE str(n)

\* strftime('%m/%d/%Y')
strftime_date(d) == pad2(d.month) \o <<"/">> \o pad2(d.day) \o <<"/">> \o str(d.year)

\* strftime('%H:%M')
strftime_time(t) == pad2(t.hour) \o <<":">> \o pad2(t.minute)

RECURSIVE str_less(_, _)
\* Python's a < b on strings: by code point, a proper prefix being less.
str_less(a, b) ==
    IF Len(b) = 0 THEN FALSE
    ELSE IF Len(a) = 0 THEN TRUE
    ELSE IF a[1] = b[1] THEN str_less(Tail(a), Tail(b))
    ELSE CharCode(a[1]) < CharCode(b[1])

is_allowed_And(current, date, time) ==
    /\ str_less(strftime_date(current.date), strftime_date(date))
    /\ str_less(strftime_time(current.time), strftime_time(time))

\* is_allowed: day < saved_day or time < saved_time, on the formatted strings.
is_allowed(current, date, time) ==
    \/ str_less(strftime_date(current.date), strftime_date(date))
    \/ str_less(strftime_time(current.time), strftime_time(time))

\* The order of two moments in time.
Earlier(a, b) ==
    LET ka == <<a.date.year, a.date.month, a.date.day, a.time.hour, a.time.minute>>
        kb == <<b.date.year, b.date.month, b.date.day, b.time.hour, b.time.minute>>
    IN \E i \in 1..5 : ka[i] < kb[i] /\ \A j \in 1..(i - 1) : ka[j] = kb[j]

\* Time passes.
Tick ==
    /\ \E m \in Moments : Earlier(now, m) /\ now' = m
    /\ UNCHANGED <<assigned, pc, req, scores, assigned_semesters, timeVars,
                   days, experience, allowed, saved_date, saved_time, call>>

IsAllowed ==
    /\ allowed' = is_allowed(now, saved_date, saved_time)
    /\ call' = [op |-> "is_allowed", at |-> now,
                ret |-> is_allowed(now, saved_date, saved_time)]
    /\ UNCHANGED <<assigned, pc, req, scores, assigned_semesters, timeVars,
                   days, experience, saved_date, saved_time, now>>

\* The record was created (auto_now_add) at some moment; the clock stands at
\* some moment.
InitGate ==
    /\ InitFields
    /\ InitNoTimes
    /\ allowed = FALSE
    /\ \E m \in Moments : saved_date = m.date /\ saved_time = m.time
    /\ now \in Moments

NextGate == Tick \/ IsAllowed

SpecGate == InitGate /\ [][NextGate]_vars

\* a comes before b in dictionary order: at the first position where they
\* differ, a has the smaller character (a and b of equal length).
LexBefore(a, b) ==
    \E k \in 1..Len(a) :
        /\ CharCode(a[k]) < CharCode(b[k])
        /\ \A j \in 1..(k - 1) : a[j] = b[j]

C10_ChronologicalGate ==
    (call.op = "is_allowed"
     /\ ~Earlier(call.at, [date |-> saved_date, time |-> saved_time])) =>
        (call.ret = FALSE /\ allowed = FALSE)

=============================================================================
